---- MODULE Spec2Model ----
(***************************************************************************)
(* A model of the pyIB2d frontend (src/pyIB2d/pyIB2d.py): the command-line *)
(* entry point, the two-pass reader give_Me_input2d_Parameters and the     *)
(* positional construction of grid_Info / model_Info in main2d, up to the  *)
(* hand-off to Driver.main.                                                *)
(*                                                                         *)
(* Text is modelled as sequences of atoms.  An atom is a maximal piece of  *)
(* text of one lexical kind: the keyword "string_name", the comment marker *)
(* "%", the assignment token "=", one blank " ", a numeric literal or a    *)
(* word.  str.find positions are atom positions (order preserving, and -1  *)
(* when absent), which is all the code compares.                           *)
(*                                                                         *)
(* Floating-point values are exact rationals [num, den]; den = 0 stands    *)
(* for the IEEE results of a division by zero (inf, -inf, nan).            *)
(***************************************************************************)
EXTENDS Integers, Sequences, FiniteSets, TLC

VARIABLES pc, args, inname, fpath, file, params, struct_name, scalars,
          grid_Info, model_Info, err, stdout, exitStatus,
          driverCalls, driverArgs

vars == <<pc, args, inname, fpath, file, params, struct_name, scalars,
          grid_Info, model_Info, err, stdout, exitStatus,
          driverCalls, driverArgs>>

\* ------------------------------------------------------------------ bounds

\* Longest file of freely combined line shapes.
MaxLines == 3

\* Most numeric lines a file holds beyond the last slot main2d reads.
MaxExtra == 1

\* --------------------------------------------------------------- utilities

\* Python's None / a bound value, as a sequence of length 0 / 1.
None == <<>>

Some(x) == <<x>>

Min(S) == CHOOSE x \in S : \A y \in S : x <= y

Max(S) == CHOOSE x \in S : \A y \in S : x >= y

Abs(n) == IF n < 0 THEN -n ELSE n

RECURSIVE GCD(_, _)
GCD(a, b) == IF b = 0 THEN a ELSE GCD(b, a % b)

\* A rational in lowest terms with a positive denominator.
Rat(n, d) ==
    LET g == GCD(Abs(n), Abs(d))
        s == IF d < 0 THEN -1 ELSE 1
    IN  [num |-> s * (n \div g), den |-> s * (d \div g)]

\* ------------------------------------------------------------------- text

Keyword == "string_name"

CommentMarker == "%"

Equals == "="

Space == " "

\* float() of a numeric literal; every other atom is not a number.
FloatTable ==
    ("0"    :> Rat(0, 1))  @@ ("0.01" :> Rat(1, 100)) @@
    ("0.5"  :> Rat(1, 2))  @@ ("-0.5" :> Rat(-1, 2))  @@
    ("1"    :> Rat(1, 1))  @@ ("2"    :> Rat(2, 1))   @@
    ("2.5"  :> Rat(5, 2))  @@ ("5"    :> Rat(5, 1))   @@
    ("10"   :> Rat(10, 1))

\* str.find: zero-based position of the first occurrence, -1 when absent.
Find(line, a) ==
    LET hits == {i \in 1..Len(line) : line[i] = a}
    IN  IF hits = {} THEN -1 ELSE Min(hits) - 1

\* `a in line`
Contains(line, a) == \E i \in 1..Len(line) : line[i] = a

\* str.split(d): the fields between the occurrences of d, empty ones kept.
RECURSIVE SplitOn(_, _)
SplitOn(s, d) ==
    IF ~Contains(s, d) THEN <<s>>
    ELSE LET i == Find(s, d) + 1
         IN  <<SubSeq(s, 1, i - 1)>> \o SplitOn(SubSeq(s, i + 1, Len(s)), d)

\* str.split(): the maximal runs of non-blank text.
Words(line) == SelectSeq(SplitOn(line, Space), LAMBDA w : w # <<>>)

\* str.strip()
Strip(s) ==
    LET keep == {i \in 1..Len(s) : s[i] # Space}
    IN  IF keep = {} THEN <<>> ELSE SubSeq(s, Min(keep), Max(keep))

\* ----------------------------------------------------------- file system

\* The one configuration file on disk, /sims/run1/input2d, as its path
\* components.  Its content is chosen when the file is first read.
ConfigPath == <<"/sims", "run1", "input2d">>

\* os.path.split: (everything before the last component, the last component).
PathSplit(p) ==
    IF p = <<>> THEN [head |-> <<>>, tail |-> <<>>]
    ELSE [head |-> SubSeq(p, 1, Len(p) - 1), tail |-> <<p[Len(p)]>>]

\* os.path.join(a, b) of a directory and a relative name.
PathJoin(head, tail) == head \o tail

\* os.path.join(fpath[0], word): the directory with the word as file name.
\* The word stays a run of atoms, so the result is a record.
PathJoinWord(head, word) == [dir |-> head, name |-> word]

\* -------------------------------------------- numeric pass (numpy.loadtxt)

\* The same cut with 'string_name' as the only comment string.
StripCommentsMarkerKept(line) ==
    LET cut == {i \in 1..Len(line) : line[i] = Keyword}
    IN  IF cut = {} THEN line ELSE SubSeq(line, 1, Min(cut) - 1)

\* comments=('%','string_name'): the text before the first comment string.
StripComments(line) ==
    LET cut == {i \in 1..Len(line) : line[i] \in {CommentMarker, Keyword}}
    IN  IF cut = {} THEN line ELSE SubSeq(line, 1, Min(cut) - 1)

\* The 'f8' converter: the field, blanks around it dropped, must be one
\* numeric literal.
IsFloat(field) ==
    /\ Len(Strip(field)) = 1
    /\ Strip(field)[1] \in DOMAIN FloatTable

FloatOf(field) == FloatTable[Strip(field)[1]]

\* One line of the file under loadtxt with delimiter '=' and two columns
\* ('S25', 'f8'): a line with nothing left of it once its comment is cut is
\* skipped (with a delimiter other than whitespace, blanks are data, so a
\* line of blanks is one column); any other line must split into exactly two
\* fields, the second a number.
LoadRow(line) ==
    LET body   == StripComments(line)
        fields == SplitOn(body, Equals)
    IN  IF body = <<>> THEN [kind |-> "skip"]
        ELSE IF Len(fields) # 2 \/ ~IsFloat(fields[2]) THEN [kind |-> "error"]
        ELSE [kind |-> "value", v |-> FloatOf(fields[2])]

RECURSIVE RowValues(_)
RowValues(f) ==
    IF f = <<>> THEN <<>>
    ELSE LET r == LoadRow(Head(f))
         IN  (IF r.kind = "value" THEN <<r.v>> ELSE <<>>) \o RowValues(Tail(f))

\* names, params = np.loadtxt(filename, ...): the 'value' column in file
\* order, or ValueError at the first line that is not a two-column row.
LoadTxt(f) ==
    IF \E i \in 1..Len(f) : LoadRow(f[i]).kind = "error"
    THEN [ok |-> FALSE, params |-> <<>>]
    ELSE [ok |-> TRUE, params |-> RowValues(f)]

\* --------------------------------------------------- string-reference pass

\* The test of line 76 alone, without the position test of line 77.
QualifiesAnywhere(line) == Contains(line, Keyword)

\* ('string_name' in line) and line.find('string_name') < line.find('%')

Qualifies(line) ==
    /\ Contains(line, Keyword)
    /\ Find(line, Keyword) < Find(line, CommentMarker)

\* The scan of lines 74-85 and the return of line 87: the first qualifying
\* line ends the scan; struct_name is bound only if one of its words is '='
\* and then from the word after it.
StringPass(f, dir) ==
    LET hits == {i \in 1..Len(f) : Qualifies(f[i])}
    IN  IF hits = {} THEN [kind |-> "unbound"]
        ELSE LET words == Words(f[Min(hits)])
                 eqs   == {n \in 1..Len(words) : words[n] = <<Equals>>}
             IN  IF eqs = {} THEN [kind |-> "unbound"]
                 ELSE IF Min(eqs) + 1 > Len(words) THEN [kind |-> "index"]
                 ELSE [kind |-> "bound",
                       path |-> PathJoinWord(dir, words[Min(eqs) + 1])]

\* ------------------------------------------------ main2d: the fixed schema

\* The index of params each field is read from (lines 100-156).
ScalarIndex == [mu |-> 0, rho |-> 1, T_final |-> 2, dt |-> 3]

GridIntIndex ==
    [Nx |-> 4, Ny |-> 5, pMatplotlib |-> 29, lagPlot |-> 30, velPlot |-> 31,
     vortPlot |-> 32, uMagPlot |-> 33, pressPlot |-> 34]

\* The float fields of grid_Info with pDump read from the slot of supp.
GridFloatIndexDumpFromSupp == [Lx |-> 6, Ly |-> 7, supp |-> 8, pDump |-> 8]

\* The float fields of grid_Info (lines 111-117).
GridFloatIndex == [Lx |-> 6, Ly |-> 7, supp |-> 8, pDump |-> 28]

ModelIntIndex ==
    [springs |-> 9, update_springs |-> 10, target_pts |-> 11,
     update_target_pts |-> 12, beams |-> 13, update_beams |-> 14,
     muscles |-> 15, hill_3_muscles |-> 16, arb_ext_force |-> 17,
     tracers |-> 18, mass |-> 19, gravity |-> 20, porous |-> 23,
     concentration |-> 24, electrophysiology |-> 25, damped_springs |-> 26,
     update_D_Springs |-> 27]

ModelFloatIndex == [xG |-> 21, yG |-> 22]

Range(f) == {f[x] : x \in DOMAIN f}

\* Every index main2d reads.
IndicesRead ==
    Range(ScalarIndex) \cup Range(GridIntIndex) \cup Range(GridFloatIndex)
        \cup Range(ModelIntIndex) \cup Range(ModelFloatIndex)

\* params[i], zero-based.
At(p, i) == p[i + 1]

\* A flag conversion that tests for the value one.
IntOfEqualsOne(v) == IF v.num = v.den THEN 1 ELSE 0

\* int(x) of a float: truncation toward zero.
IntOf(v) ==
    IF v.num >= 0 THEN v.num \div v.den ELSE -((-v.num) \div v.den)

\* a / b of two numpy float64: a division by zero is inf, -inf or nan (a
\* warning, no exception).
Div(a, b) ==
    IF b.num = 0
    THEN [num |-> (IF a.num > 0 THEN 1 ELSE IF a.num < 0 THEN -1 ELSE 0),
          den |-> 0]
    ELSE Rat(a.num * b.den, a.den * b.num)

\* grid_Info as lines 108-127 fill it, from a vector holding the indices.
GridInfoOf(p) ==
    [k \in DOMAIN GridIntIndex \cup DOMAIN GridFloatIndex \cup {"dx", "dy"} |->
        IF k = "dx" THEN Div(At(p, GridFloatIndex.Lx), At(p, GridIntIndex.Nx))
        ELSE IF k = "dy" THEN Div(At(p, GridFloatIndex.Ly), At(p, GridIntIndex.Ny))
        ELSE IF k \in DOMAIN GridIntIndex THEN IntOf(At(p, GridIntIndex[k]))
        ELSE At(p, GridFloatIndex[k])]

\* model_Info as lines 132-156 fill it.
ModelInfoOf(p) ==
    [k \in DOMAIN ModelIntIndex \cup DOMAIN ModelFloatIndex |->
        IF k \in DOMAIN ModelIntIndex THEN IntOf(At(p, ModelIntIndex[k]))
        ELSE At(p, ModelFloatIndex[k])]

\* mu, rho, T_final, dt (lines 100-105).
ScalarsOf(p) == [k \in DOMAIN ScalarIndex |-> At(p, ScalarIndex[k])]

\* The reads of params in the order main2d makes them, each with its line.
ReadOrder ==
    << <<0, 100>>, <<1, 101>>, <<2, 104>>, <<3, 105>>, <<4, 109>>, <<5, 110>>,
       <<6, 111>>, <<7, 112>>, <<6, 113>>, <<4, 113>>, <<7, 114>>, <<5, 114>>,
       <<8, 115>>, <<28, 117>>, <<29, 118>>, <<30, 119>>, <<31, 120>>,
       <<32, 122>>, <<33, 124>>, <<34, 127>>, <<9, 133>>, <<10, 134>>,
       <<11, 135>>, <<12, 136>>, <<13, 137>>, <<14, 138>>, <<15, 140>>,
       <<16, 143>>, <<17, 145>>, <<18, 146>>, <<19, 147>>, <<20, 148>>,
       <<21, 149>>, <<22, 150>>, <<23, 151>>, <<24, 152>>, <<25, 154>>,
       <<26, 155>>, <<27, 156>> >>

\* The line of the first read a vector of the given length cannot serve.
FailLine(n) ==
    ReadOrder[Min({k \in 1..Len(ReadOrder) : ReadOrder[k][1] >= n})][2]

\* Lines 100-156 with reads past the end of the vector skipped instead of
\* raising: the fields whose slot the vector holds.
BuildOutcomeUnchecked(p) ==
    LET held == {i \in IndicesRead : i < Len(p)}
        q    == [i \in 1..(Max(IndicesRead) + 1) |->
                    IF i <= Len(p) THEN p[i] ELSE Rat(0, 1)]
    IN  [ok |-> TRUE, scalars |-> ScalarsOf(q),
         grid |-> [k \in {k \in DOMAIN GridInfoOf(q) :
                            /\ k \in DOMAIN GridIntIndex => GridIntIndex[k] \in held
                            /\ k \in DOMAIN GridFloatIndex => GridFloatIndex[k] \in held}
                     |-> GridInfoOf(q)[k]],
         model |-> [k \in {k \in DOMAIN ModelInfoOf(q) :
                            /\ k \in DOMAIN ModelIntIndex => ModelIntIndex[k] \in held
                            /\ k \in DOMAIN ModelFloatIndex => ModelFloatIndex[k] \in held}
                     |-> ModelInfoOf(q)[k]]]

\* Lines 100-156 on a vector: IndexError at the first index the vector does
\* not hold (the locals built so far die with the frame), else the three
\* parts of the configuration.
BuildOutcome(p) ==
    IF \E i \in IndicesRead : i >= Len(p)
    THEN [ok |-> FALSE, line |-> FailLine(Len(p))]
    ELSE [ok |-> TRUE, scalars |-> ScalarsOf(p), grid |-> GridInfoOf(p),
          model |-> ModelInfoOf(p)]

\* ---------------------------------------------------------------- inputs

\* The shapes a line of a configuration file takes.
NumericLine     == <<"mu", Space, Equals, Space, "0.01">>
NumericTight    == <<"rho", Equals, "1">>
NumericTrailing == <<"dt", Space, Equals, Space, "2", Space, CommentMarker,
                     Space, "step">>
NumericBad      == <<"mu", Space, Equals, Space, "abc">>
CommentLine     == <<CommentMarker, Space, "Nx", Space, Equals, Space, "5">>
CommentedRef    == <<CommentMarker, Space, "comment", Space, Keyword, Space,
                     Equals, Space, "ignored.vertex">>
BlankLine       == <<>>
RefLine         == <<Keyword, Space, Equals, Space, "beam.vertex", Space,
                     CommentMarker, Space, "structure">>
RefTight        == <<Keyword, Equals, "beam.vertex", Space, CommentMarker,
                     Space, "structure">>
RefBare         == <<Keyword, Space, Equals, Space, "beam.vertex">>

LineShapes ==
    {NumericLine, NumericTight, NumericTrailing, NumericBad, CommentLine,
     CommentedRef, BlankLine, RefLine, RefTight, RefBare}

\* Every file of at most MaxLines lines of these shapes.
SmallFiles == UNION {[1..n -> LineShapes] : n \in 0..MaxLines}

\* A file in the layout of the distributed input2d files: one numeric line
\* per slot, in schema order.
BaseLiterals ==
    <<"0.01", "1", "1", "0.5", "5", "5", "10", "10", "2",
      "1", "0", "1", "0", "1", "0", "0", "0", "0", "0", "0", "0",
      "0", "0", "0", "0", "0", "0", "0", "2",
      "1", "1", "0", "0", "0", "0">>

SlotLine(lit) == <<"name", Space, Equals, Space, lit>>

\* n numeric lines, line i (if any) holding lit, the others the base value
\* of their slot (extra lines hold "1").
Body(n, i, lit) ==
    [k \in 1..n |->
        SlotLine(IF k = i THEN lit
                 ELSE IF k <= Len(BaseLiterals) THEN BaseLiterals[k] ELSE "1")]

Preambles == {<<>>, <<CommentLine>>, <<CommentLine, BlankLine, CommentedRef>>}

RefShapes == {RefLine, RefTight, RefBare}

\* Long files: a preamble, the numeric lines and the reference line.  One
\* slot is varied over every literal once the file is long enough to be
\* built.
LongFiles ==
    {pre \o Body(n, 0, "1") \o <<ref>> :
        pre \in Preambles, n \in 0..(Len(BaseLiterals) + MaxExtra),
        ref \in RefShapes}
    \cup
    {pre \o Body(n, i, lit) \o <<RefLine>> :
        pre \in Preambles,
        n \in Len(BaseLiterals)..(Len(BaseLiterals) + MaxExtra),
        i \in 1..Len(BaseLiterals), lit \in DOMAIN FloatTable}

Files == SmallFiles \cup LongFiles

\* What the command line can hold: -p absent, -p '' or -p with the path.
PathArgs == {None, Some(<<>>), Some(ConfigPath)}

\* What the file dialog returns: '' when cancelled, else the chosen path.
DialogResults == {<<>>, ConfigPath}

\* ------------------------------------------------------------ the program

Init ==
    /\ pc = "cli"
    /\ args = None
    /\ inname = None
    /\ fpath = None
    /\ file = None
    /\ params = None
    /\ struct_name = None
    /\ scalars = None
    /\ grid_Info = None
    /\ model_Info = None
    /\ err = None
    /\ stdout = <<>>
    /\ exitStatus = None
    /\ driverCalls = 0
    /\ driverArgs = None

\* `if args.path`: None and '' are both false.
Truthy(path) == path # None /\ path[1] # <<>>

\* An uncaught exception of the given type, raised at the given line, ends
\* the process with status 1.
Raise(type, line) ==
    /\ pc' = "failed"
    /\ err' = Some([type |-> type, line |-> line])
    /\ exitStatus' = Some(1)

\* Lines 173-174 and 180-181: -p given (and not empty).
UsePath ==
    /\ pc = "cli"
    /\ \E path \in PathArgs, fdiag \in BOOLEAN :
        /\ Truthy(path)
        /\ args' = Some([path |-> path, fdiag |-> fdiag])
        /\ inname' = Some(path[1])
        /\ fpath' = Some(PathSplit(path[1]))
    /\ pc' = "main2d"
    /\ UNCHANGED <<file, params, struct_name, scalars, grid_Info, model_Info,
                   err, stdout, exitStatus, driverCalls, driverArgs>>

\* Lines 175-176 and 180-181: no usable -p, and -d given.
UseDialog ==
    /\ pc = "cli"
    /\ \E path \in PathArgs, chosen \in DialogResults :
        /\ ~Truthy(path)
        /\ args' = Some([path |-> path, fdiag |-> TRUE])
        /\ inname' = Some(chosen)
        /\ fpath' = Some(PathSplit(chosen))
    /\ pc' = "main2d"
    /\ UNCHANGED <<file, params, struct_name, scalars, grid_Info, model_Info,
                   err, stdout, exitStatus, driverCalls, driverArgs>>

\* Lines 177-179: neither; sys.exit() without an argument is status 0.
InvalidFlags ==
    /\ pc = "cli"
    /\ \E path \in PathArgs :
        /\ ~Truthy(path)
        /\ args' = Some([path |-> path, fdiag |-> FALSE])
    /\ stdout' = Append(stdout, "Invalid use of flags. Use the -h option for help.")
    /\ exitStatus' = Some(0)
    /\ pc' = "exited"
    /\ UNCHANGED <<inname, fpath, file, params, struct_name, scalars,
                   grid_Info, model_Info, err, driverCalls, driverArgs>>

\* Lines 64-70 when the joined path names no file.
OpenMissing ==
    /\ pc = "main2d"
    /\ PathJoin(fpath[1].head, fpath[1].tail) # ConfigPath
    /\ Raise("OSError", 68)
    /\ UNCHANGED <<args, inname, fpath, file, params, struct_name, scalars,
                   grid_Info, model_Info, stdout, driverCalls, driverArgs>>

\* Lines 64-70: the numeric pass over the file found at the path.
NumericPass ==
    /\ pc = "main2d"
    /\ PathJoin(fpath[1].head, fpath[1].tail) = ConfigPath
    /\ \E f \in Files :
        /\ file' = Some(f)
        /\ IF LoadTxt(f).ok
           THEN /\ params' = Some(LoadTxt(f).params)
                /\ pc' = "loaded"
                /\ UNCHANGED <<err, exitStatus>>
           ELSE /\ Raise("ValueError", 68)
                /\ UNCHANGED params
    /\ UNCHANGED <<args, inname, fpath, struct_name, scalars, grid_Info,
                   model_Info, stdout, driverCalls, driverArgs>>

\* Lines 73-87: the string-reference pass and the return.
ReferencePass ==
    /\ pc = "loaded"
    /\ LET r == StringPass(file[1], fpath[1].head)
       IN  CASE r.kind = "bound" ->
                  /\ struct_name' = Some(r.path)
                  /\ pc' = "extracted"
                  /\ UNCHANGED <<err, exitStatus>>
             [] r.kind = "unbound" ->
                  /\ Raise("UnboundLocalError", 87)
                  /\ UNCHANGED struct_name
             [] r.kind = "index" ->
                  /\ Raise("IndexError", 83)
                  /\ UNCHANGED struct_name
    /\ UNCHANGED <<args, inname, fpath, file, params, scalars, grid_Info,
                   model_Info, stdout, driverCalls, driverArgs>>

\* Lines 99-156: the configuration, or IndexError.
Build ==
    /\ pc = "extracted"
    /\ LET b == BuildOutcome(params[1])
       IN  IF b.ok
           THEN /\ scalars' = Some(b.scalars)
                /\ grid_Info' = Some(b.grid)
                /\ model_Info' = Some(b.model)
                /\ pc' = "built"
                /\ UNCHANGED <<err, exitStatus>>
           ELSE /\ Raise("IndexError", b.line)
                /\ UNCHANGED <<scalars, grid_Info, model_Info>>
    /\ UNCHANGED <<args, inname, fpath, file, params, struct_name, stdout,
                   driverCalls, driverArgs>>

\* The count of solver calls with the call of line 160 live as well.
DriverCallsAfterBoth(n) == n + 2

\* Line 163 is the one live call of Driver.main (line 160 is commented out).

DriverCallsAfter(n) == n + 1

\* Line 163: the hand-off.  The solver is external: it returns or raises.
CallDriver ==
    /\ pc = "built"
    /\ driverCalls' = DriverCallsAfter(driverCalls)
    /\ driverArgs' = Some([struct_name |-> struct_name[1],
                           mu |-> scalars[1].mu, rho |-> scalars[1].rho,
                           grid_Info |-> grid_Info[1], dt |-> scalars[1].dt,
                           T_final |-> scalars[1].T_final,
                           model_Info |-> model_Info[1]])
    /\ \E returns \in BOOLEAN :
        IF returns
        THEN /\ pc' = "done"
             /\ exitStatus' = Some(0)
             /\ UNCHANGED err
        ELSE Raise("DriverError", 163)
    /\ UNCHANGED <<args, inname, fpath, file, params, struct_name, scalars,
                   grid_Info, model_Info, stdout>>

Next ==
    \/ UsePath
    \/ UseDialog
    \/ InvalidFlags
    \/ OpenMissing
    \/ NumericPass
    \/ ReferencePass
    \/ Build
    \/ CallDriver

Spec == Init /\ [][Next]_vars

\* ------------------------------------------------------------ properties

\* The reference pass has run (it runs right after a successful numeric pass).
ReferencePassDone == params # None /\ pc # "loaded"

\* The construction of lines 99-156 has run.
BuildDone == struct_name # None /\ pc # "extracted"

\* The directory of the configuration file.
ConfigDir == SubSeq(ConfigPath, 1, Len(ConfigPath) - 1)

\* A line whose keyword is not inside a comment: the keyword precedes the
\* comment marker, or there is no comment marker.
KeywordOutsideComment(line) ==
    /\ Contains(line, Keyword)
    /\ \/ ~Contains(line, CommentMarker)
       \/ Find(line, Keyword) < Find(line, CommentMarker)

\* The word after a free-standing '=' of a line, if there is one.
SpacedToken(line) ==
    LET w   == Words(line)
        eqs == {n \in 1..(Len(w) - 1) : w[n] = <<Equals>>}
    IN  IF eqs = {} THEN None ELSE Some(w[Min(eqs) + 1])

\* C1: in the string-reference pass a line containing string_name qualifies
\* iff the keyword precedes the comment marker, a line without a comment
\* marker always qualifying; the first qualifying line supplies the token
\* after '=', which joined with the file's directory is the returned
\* StructureReference.
C1_FirstUncommentedReferenceReturned ==
    ReferencePassDone =>
        LET f == file[1]
            q == {i \in 1..Len(f) : KeywordOutsideComment(f[i])}
        IN  (q # {} /\ SpacedToken(f[Min(q)]) # None) =>
                struct_name =
                    Some([dir |-> ConfigDir, name |-> SpacedToken(f[Min(q)])[1]])

\* Every line holding the keyword holds it only after a comment marker.
CommentedOnly(f) ==
    \A i \in 1..Len(f) :
        Contains(f[i], Keyword) =>
            /\ Contains(f[i], CommentMarker)
            /\ Find(f[i], CommentMarker) < Find(f[i], Keyword)

\* C2: when the keyword appears only after the comment marker in every line
\* holding it (or in no line), no StructureReference is returned: the run
\* never gets past extraction, and the reference pass, once it has scanned
\* the file, ends in the missing-reference error (the unbound struct_name at
\* the return of line 87).
C2_CommentedKeywordNeverReturned ==
    (file # None /\ CommentedOnly(file[1])) =>
        /\ struct_name = None
        /\ pc \notin {"extracted", "built", "done"}
        /\ driverCalls = 0
        /\ ReferencePassDone =>
              /\ pc = "failed"
              /\ err = Some([type |-> "UnboundLocalError", line |-> 87])

C2_Witness ==
    /\ file # None
    /\ CommentedOnly(file[1])
    /\ \E i \in 1..Len(file[1]) : Contains(file[1][i], Keyword)
    /\ ReferencePassDone
    /\ err = Some([type |-> "UnboundLocalError", line |-> 87])

\* The kinds of line the file format knows, by the first thing on the line.
IsBlank(line) == Strip(line) = <<>>

IsCommentLine(line) == ~IsBlank(line) /\ Strip(line)[1] = CommentMarker

IsReferenceLine(line) == ~IsBlank(line) /\ Strip(line)[1] = Keyword

IsNumericLine(line) ==
    ~IsBlank(line) /\ ~IsCommentLine(line) /\ ~IsReferenceLine(line)

\* The number written after the '=' of a numeric line.
NotANumber == [num |-> 0, den |-> 0]

WrittenValue(line) ==
    LET after == {i \in 1..Len(line) :
                    /\ i > Find(line, Equals) + 1
                    /\ line[i] # Space}
    IN  IF ~Contains(line, Equals) \/ after = {} THEN NotANumber
        ELSE IF line[Min(after)] \in DOMAIN FloatTable
             THEN FloatTable[line[Min(after)]]
             ELSE NotANumber

\* The values of the numeric lines of a file, in file order.
ExpectedVector(f) ==
    LET lines == SelectSeq(f, IsNumericLine)
    IN  [k \in 1..Len(lines) |-> WrittenValue(lines[k])]

\* C3: the ParameterVector the numeric pass returns holds exactly one value
\* per non-comment `name = value` line, in file order; comment lines
\* (whatever they hold), blank lines and the reference line give no value.
C3_VectorIsNumericLinesInOrder ==
    params # None => params[1] = ExpectedVector(file[1])

C3_Witness ==
    /\ params # None
    /\ Len(params[1]) >= 2
    /\ \E i \in 1..Len(file[1]) :
          IsCommentLine(file[1][i]) /\ Contains(file[1][i], Equals)
    /\ \E i \in 1..Len(file[1]) : IsBlank(file[1][i])
    /\ \E i \in 1..Len(file[1]) : IsReferenceLine(file[1][i])

\* The boolean-like slots: the feature flags and the plot toggles.
FlagSlots == (9..20) \cup (23..27) \cup (29..34)

\* The flags main2d stores, each with the slot it is read from.
StoredFlags ==
    {[slot |-> ModelIntIndex[k], value |-> model_Info[1][k]] :
        k \in DOMAIN ModelIntIndex}
    \cup
    {[slot |-> GridIntIndex[k], value |-> grid_Info[1][k]] :
        k \in DOMAIN GridIntIndex \ {"Nx", "Ny"}}

\* The truth value of a Python int.
FlagTrue(n) == n # 0

\* C4 as stated: each stored flag is false exactly when its source value is
\* zero and true for every nonzero source value.
C4_FlagIsNonzeroTestOfSource ==
    model_Info # None =>
        \A fl \in StoredFlags :
            FlagTrue(fl.value) <=> At(params[1], fl.slot).num # 0

\* C4, amended: the flags are exactly those of the boolean-like slots, and
\* each is false exactly when its source value truncates to zero (is
\* strictly between -1 and 1) and true otherwise; for whole source values
\* that is the nonzero test.
C4_FlagIsNonzeroTestOfTruncation ==
    model_Info # None =>
        /\ {fl.slot : fl \in StoredFlags} = FlagSlots
        /\ \A fl \in StoredFlags :
              LET v == At(params[1], fl.slot)
              IN  /\ FlagTrue(fl.value) <=> Abs(v.num) >= v.den
                  /\ v.den = 1 => (FlagTrue(fl.value) <=> v.num # 0)

C4_Witness ==
    /\ model_Info # None
    /\ \E fl \in StoredFlags :
          At(params[1], fl.slot) = Rat(0, 1) /\ ~FlagTrue(fl.value)
    /\ \E fl \in StoredFlags :
          At(params[1], fl.slot) = Rat(1, 1) /\ FlagTrue(fl.value)
    /\ \E fl \in StoredFlags :
          At(params[1], fl.slot) = Rat(2, 1) /\ FlagTrue(fl.value)

\* The number of slots of the fixed schema.
SchemaLength == Max(IndicesRead) + 1

\* C5: a ParameterVector shorter than the schema never becomes a
\* configuration: the construction fails with IndexError, nothing of
\* grid_Info / model_Info is handed on and Driver.main is not called.
C5_ShortVectorFailsWithIndexError ==
    (params # None /\ Len(params[1]) < SchemaLength) =>
        /\ scalars = None /\ grid_Info = None /\ model_Info = None
        /\ driverCalls = 0 /\ driverArgs = None
        /\ pc \notin {"built", "done"}
        /\ BuildDone =>
              /\ pc = "failed"
              /\ err[1].type = "IndexError"
              /\ err[1].line \in 100..156

C5_Witness ==
    /\ params # None
    /\ Len(params[1]) = 10
    /\ BuildDone
    /\ err = Some([type |-> "IndexError", line |-> 117])

\* C6: each stored spatial step is that axis's stored length divided by that
\* axis's stored (truncated) grid count.
C6_StepIsLengthOverStoredCount ==
    grid_Info # None =>
        /\ grid_Info[1].dx = Div(grid_Info[1].Lx, Rat(grid_Info[1].Nx, 1))
        /\ grid_Info[1].dy = Div(grid_Info[1].Ly, Rat(grid_Info[1].Ny, 1))

\* The numeric fields of the configuration written back to the slots they
\* were read from (dx and dy are derived and have no slot).
Missing == [num |-> 0, den |-> 0]

WrittenBack ==
    [i \in 1..SchemaLength |->
        LET at == i - 1
        IN  IF \E k \in DOMAIN ScalarIndex : ScalarIndex[k] = at
            THEN scalars[1][CHOOSE k \in DOMAIN ScalarIndex : ScalarIndex[k] = at]
            ELSE IF \E k \in DOMAIN GridIntIndex : GridIntIndex[k] = at
            THEN Rat(grid_Info[1][CHOOSE k \in DOMAIN GridIntIndex :
                                      GridIntIndex[k] = at], 1)
            ELSE IF \E k \in DOMAIN GridFloatIndex : GridFloatIndex[k] = at
            THEN grid_Info[1][CHOOSE k \in DOMAIN GridFloatIndex :
                                  GridFloatIndex[k] = at]
            ELSE IF \E k \in DOMAIN ModelIntIndex : ModelIntIndex[k] = at
            THEN Rat(model_Info[1][CHOOSE k \in DOMAIN ModelIntIndex :
                                       ModelIntIndex[k] = at], 1)
            ELSE IF \E k \in DOMAIN ModelFloatIndex : ModelFloatIndex[k] = at
            THEN model_Info[1][CHOOSE k \in DOMAIN ModelFloatIndex :
                                   ModelFloatIndex[k] = at]
            ELSE Missing]

\* The slots main2d converts with int().
IntSlots == Range(GridIntIndex) \cup Range(ModelIntIndex)

\* C7 as stated: writing the numeric fields back to their slots gives the
\* ParameterVector they were read from.
C7_WriteBackIsIdentity ==
    model_Info # None => WrittenBack = params[1]

\* C7, amended: it does when the vector has exactly the schema's length and
\* every slot converted with int() holds a whole number.
C7_WriteBackIsIdentityOnWholeCounts ==
    (/\ model_Info # None
     /\ Len(params[1]) = SchemaLength
     /\ \A i \in IntSlots : At(params[1], i).den = 1)
        => WrittenBack = params[1]

C7_Witness ==
    /\ model_Info # None
    /\ Len(params[1]) = SchemaLength
    /\ \A i \in IntSlots : At(params[1], i).den = 1
    /\ \E i \in 1..SchemaLength : params[1][i].den # 1
    /\ \E i \in IntSlots : At(params[1], i).num > 1
    /\ WrittenBack = params[1]

\* The fields of a complete grid_Info and model_Info.
GridFields ==
    {"Nx", "Ny", "Lx", "Ly", "dx", "dy", "supp", "pDump", "pMatplotlib",
     "lagPlot", "velPlot", "vortPlot", "uMagPlot", "pressPlot"}

ModelFields ==
    {"springs", "update_springs", "target_pts", "update_target_pts", "beams",
     "update_beams", "muscles", "hill_3_muscles", "arb_ext_force", "tracers",
     "mass", "gravity", "xG", "yG", "porous", "concentration",
     "electrophysiology", "damped_springs", "update_D_Springs"}

\* C8: Driver.main is invoked at most once, and only with the complete
\* configuration of a run whose extraction and construction succeeded; a run
\* that fails in any of its own steps never invokes it.
C8_DriverOnceAfterCompleteBuild ==
    /\ driverCalls <= 1
    /\ (driverCalls = 0) <=> (driverArgs = None)
    /\ driverCalls >= 1 =>
          /\ params # None /\ struct_name # None /\ scalars # None
          /\ grid_Info # None /\ model_Info # None
          /\ DOMAIN grid_Info[1] = GridFields
          /\ DOMAIN model_Info[1] = ModelFields
          /\ driverArgs[1].struct_name = struct_name[1]
          /\ driverArgs[1].grid_Info = grid_Info[1]
          /\ driverArgs[1].model_Info = model_Info[1]
    /\ (pc = "failed" /\ err[1].type # "DriverError") => driverCalls = 0
    /\ pc \in {"cli", "exited", "main2d", "loaded", "extracted", "built"}
          => driverCalls = 0

C8_Witness ==
    /\ pc = "done"
    /\ driverCalls = 1
    /\ driverArgs # None

\* C9: exactly one of -p and -d must be supplied: main2d runs only then, and
\* otherwise a usage message is printed and the exit status is nonzero.
C9_ExactlyOneOfPathAndDialog ==
    args # None =>
        LET p   == args[1].path # None
            d   == args[1].fdiag
            one == (p /\ ~d) \/ (~p /\ d)
        IN  /\ one <=> fpath # None
            /\ ~one => /\ stdout # <<>>
                       /\ exitStatus # None
                       /\ exitStatus[1] # 0

\* The token written after the '=' of a line, blanks around the '=' or not.
LooseToken(line) ==
    LET rest == SubSeq(line, Find(line, Equals) + 2, Len(line))
    IN  IF ~Contains(line, Equals) \/ Words(rest) = <<>> THEN None
        ELSE Some(Words(rest)[1])

\* C10: blanks around '=' are optional in both passes: a numeric line gives
\* its value with or without them, and the first qualifying reference line
\* gives its token with or without them, never ending the scan without a
\* path.
C10_BlanksAroundEqualsOptional ==
    /\ params # None => params[1] = ExpectedVector(file[1])
    /\ ReferencePassDone =>
          LET f == file[1]
              q == {i \in 1..Len(f) : Qualifies(f[i])}
          IN  (q # {} /\ LooseToken(f[Min(q)]) # None) =>
                  struct_name =
                      Some([dir |-> ConfigDir, name |-> LooseToken(f[Min(q)])[1]])

====
